---- MODULE Spec2Model ----
(***************************************************************************)
(* Conway's Game of Life on a toroidal grid (src/main.c).                  *)
(*                                                                         *)
(* The program is one thread: main calls init, setup, draw and then loops  *)
(* usleep / update / draw for ever.  The model follows main's control      *)
(* flow with pc, and update's cell loop one cell at a time, so that the    *)
(* scratch buffer's intermediate contents are states of the model.         *)
(*                                                                         *)
(* COLS and ROWS are preprocessor macros of the source (70 and 30).  They  *)
(* are variables here, fixed by Init and never changed, so the same        *)
(* translation of the code runs on the production grid (SpecSeed,          *)
(* SpecIndex) and on grids small enough to enumerate every seed (Spec,     *)
(* SpecBlinker).                                                           *)
(***************************************************************************)
EXTENDS Integers, Sequences, FiniteSets

VARIABLES
  COLS, ROWS,        \* the grid's dimensions (#define COLS / ROWS)
  pattern,           \* the coordinates setup assigns 1 to
  ticks,             \* how many iterations of main's while(1) are explored
  pc,                \* the statement the thread executes next
  grid,              \* main's int grid[COLS * ROWS]; <<>> before init wrote it
  gridcpy,           \* update's int gridcpy[COLS*ROWS]; <<>> outside its scope
  x, y,              \* update's loop counters
  alive_neighbors,   \* update's local of the same name
  pre,               \* history: the grid as it was when update was entered
  gen,               \* history: number of update calls that have returned
  frame,             \* the terminal's content, as written by the last draw
  shown,             \* history: the value of gen at each draw, in order
  ax, ay, kx, ky,    \* SpecIndex: the arguments of a cellindex call
  ret                \* SpecIndex: the value cellindex returned

vars == <<COLS, ROWS, pattern, ticks, pc, grid, gridcpy, x, y,
          alive_neighbors, pre, gen, frame, shown, ax, ay, kx, ky, ret>>

-----------------------------------------------------------------------------
(* Program constants *)

ProdCols == 70
ProdRows == 30
AUTO == 1
ALIVE == "■"
DEAD == " "

(* Bounds of the model *)

\* Spec enumerates every seed of every grid of at least 3 x 3 and at most
\* MaxCells cells.
MaxCells == 12
\* iterations of main's loop explored by Spec
MaxGen == 2
\* iterations of main's loop explored by SpecSeed and SpecBlinker
SeedGens == 4
\* SpecBlinker places a blinker on every grid of 4..MaxBlinkDim columns and rows
MaxBlinkDim == 5
\* SpecIndex calls cellindex up to MaxK grid widths / heights off the grid
MaxK == 2

-----------------------------------------------------------------------------
(* C arithmetic *)

\* a % b of C99 for b > 0: the remainder of the division truncated towards
\* zero, which has the sign of a.
CRem(a, b) == IF a >= 0 THEN a % b ELSE -((-a) % b)

-----------------------------------------------------------------------------
(* Grid store *)

cellindex_clamp(cx, cy) ==
  LET x1 == IF cx < 0 THEN 0 ELSE IF cx >= COLS THEN COLS - 1 ELSE cx
      y1 == IF cy < 0 THEN 0 ELSE IF cy >= ROWS THEN ROWS - 1 ELSE cy
  IN  y1 * COLS + x1

cellindex(cx, cy) ==
  LET x1 == CRem(cx + COLS, COLS)
      y1 == CRem(cy + ROWS, ROWS)
  IN  y1 * COLS + x1

setcell(g, cx, cy, state) == [g EXCEPT ![cellindex(cx, cy)] = state]

getcell(g, cx, cy) == g[cellindex(cx, cy)]

init_grid == [i \in 0 .. (COLS * ROWS - 1) |-> 0]

copygrid(source) == [i \in 0 .. (ROWS * COLS - 1) |-> source[i]]

-----------------------------------------------------------------------------
(* Generation engine *)

count_alive_neighbors_self(g, cx, cy) ==
  LET nw == getcell(g, cx - 1, cy - 1)
      n  == getcell(g, cx,     cy - 1)
      ne == getcell(g, cx + 1, cy - 1)
      w  == getcell(g, cx - 1, cy)
      e  == getcell(g, cx + 1, cy)
      sw == getcell(g, cx - 1, cy + 1)
      s  == getcell(g, cx,     cy + 1)
      se == getcell(g, cx,     cy)
  IN  nw + n + ne + w + e + sw + s + se

count_alive_neighbors(g, cx, cy) ==
  LET nw == getcell(g, cx - 1, cy - 1)
      n  == getcell(g, cx,     cy - 1)
      ne == getcell(g, cx + 1, cy - 1)
      w  == getcell(g, cx - 1, cy)
      e  == getcell(g, cx + 1, cy)
      sw == getcell(g, cx - 1, cy + 1)
      s  == getcell(g, cx,     cy + 1)
      se == getcell(g, cx + 1, cy + 1)
  IN  nw + n + ne + w + e + sw + s + se

\* Mutants of update_cell (below).  Each is the loop body with one slip.
\* ">= 3" for "> 3"
update_cell_overpop(g, cpy, cx, cy, an) ==
  IF getcell(g, cx, cy) # 0
  THEN IF an < 2 \/ an >= 3 THEN <<g, setcell(cpy, cx, cy, 0)>> ELSE <<g, cpy>>
  ELSE IF an = 3 THEN <<g, setcell(cpy, cx, cy, 1)>> ELSE <<g, cpy>>

\* the writes go to the caller's grid
update_cell_inplace(g, cpy, cx, cy, an) ==
  IF getcell(g, cx, cy) # 0
  THEN IF an < 2 \/ an > 3 THEN <<setcell(g, cx, cy, 0), cpy>> ELSE <<g, cpy>>
  ELSE IF an = 3 THEN <<setcell(g, cx, cy, 1), cpy>> ELSE <<g, cpy>>

\* a revived cell is given the neighbour count instead of 1
update_cell_count(g, cpy, cx, cy, an) ==
  IF getcell(g, cx, cy) # 0
  THEN IF an < 2 \/ an > 3 THEN <<g, setcell(cpy, cx, cy, 0)>> ELSE <<g, cpy>>
  ELSE IF an = 3 THEN <<g, setcell(cpy, cx, cy, an)>> ELSE <<g, cpy>>

\* "alive_neighbors = 3" for "alive_neighbors == 3": the test is always true
update_cell_assign(g, cpy, cx, cy, an) ==
  IF getcell(g, cx, cy) # 0
  THEN IF an < 2 \/ an > 3 THEN <<g, setcell(cpy, cx, cy, 0)>> ELSE <<g, cpy>>
  ELSE <<g, setcell(cpy, cx, cy, 1)>>

\* The body of update's inner loop after the neighbours were counted
\* (lines 141-153), as the pair <<grid, gridcpy>> it leaves: the body reads
\* grid and writes gridcpy only.
update_cell(g, cpy, cx, cy, an) ==
  IF getcell(g, cx, cy) # 0
  THEN IF an < 2 \/ an > 3 THEN <<g, setcell(cpy, cx, cy, 0)>> ELSE <<g, cpy>>
  ELSE IF an = 3 THEN <<g, setcell(cpy, cx, cy, 1)>> ELSE <<g, cpy>>

-----------------------------------------------------------------------------
(* Seeding and drawing *)

SeedCells ==
  {
     <<20,15>>, <<21,13>>, <<21,14>>, <<21,16>>, <<21,17>>, <<24,12>>, <<24,13>>,
     <<24,14>>, <<24,16>>, <<24,17>>, <<24,18>>, <<25,12>>, <<25,13>>, <<25,17>>,
     <<25,18>>, <<26,8>>, <<26,9>>, <<26,10>>, <<26,20>>, <<26,21>>, <<26,22>>,
     <<28,8>>, <<28,10>>, <<28,20>>, <<28,22>>, <<29,10>>, <<29,11>>, <<29,19>>,
     <<29,20>>, <<30,10>>, <<30,20>>, <<31,9>>, <<31,10>>, <<31,20>>, <<31,21>>,
     <<32,10>>, <<32,20>>, <<33,10>>, <<33,13>>, <<33,17>>, <<33,20>>, <<34,10>>,
     <<34,13>>, <<34,17>>, <<34,20>>, <<35,8>>, <<35,10>>, <<35,11>>, <<35,19>>,
     <<35,20>>, <<35,22>>, <<36,7>>, <<36,9>>, <<36,21>>, <<36,23>>, <<38,9>>,
     <<38,21>>, <<39,9>>, <<39,21>>, <<40,9>>, <<40,21>>, <<41,8>>, <<41,9>>,
     <<41,21>>, <<41,22>>, <<42,8>>, <<42,9>>, <<42,21>>, <<42,22>>, <<43,9>>,
     <<43,11>>, <<43,12>>, <<43,13>>, <<43,17>>, <<43,18>>, <<43,19>>, <<43,21>>,
     <<44,11>>, <<44,12>>, <<44,13>>, <<44,17>>, <<44,18>>, <<44,19>>, <<45,11>>,
     <<45,12>>, <<45,18>>, <<45,19>>, <<46,10>>, <<46,11>>, <<46,19>>, <<46,20>>,
     <<47,12>>, <<47,18>>, <<48,9>>, <<48,21>>, <<49,9>>, <<49,10>>, <<49,20>>,
     <<49,21>>, <<51,8>>, <<51,10>>, <<51,11>>, <<51,19>>, <<51,20>>, <<51,22>>,
     <<52,7>>, <<52,10>>, <<52,11>>, <<52,19>>, <<52,20>>, <<52,23>>, <<53,6>>,
     <<53,10>>, <<53,11>>, <<53,19>>, <<53,20>>, <<53,24>>, <<54,7>>, <<54,23>>
  }

\* setup with the two coordinates of every assignment exchanged
setup_swapped(g, cells) ==
  [i \in DOMAIN g |->
     IF \E c \in cells : cellindex(c[2], c[1]) = i THEN 1 ELSE g[i]]

\* setup: grid[cellindex(x, y)] = 1 for each listed coordinate.
setup(g, cells) ==
  [i \in DOMAIN g |->
     IF \E c \in cells : cellindex(c[1], c[2]) = i THEN 1 ELSE g[i]]

\* draw: the glyph printed for each cell, row by row.
draw(g) ==
  [cy \in 0 .. (ROWS - 1) |->
     [cx \in 0 .. (COLS - 1) |->
        IF g[cellindex(cx, cy)] = 1 THEN ALIVE ELSE DEAD]]

-----------------------------------------------------------------------------
(* main *)

\* main without the draw after update
main_after_nodraw(label) ==
  CASE label = "init"   -> "setup"
    [] label = "setup"  -> "draw"
    [] label = "draw"   -> "usleep"
    [] label = "usleep" -> "update"
    [] label = "update" -> "usleep"

\* The statement of main that follows the call at label.  AUTO is 1, so the
\* loop taken is while(1) { usleep; update; draw; } and the getchar loop of
\* the else branch is never entered.
main_after(label) ==
  CASE label = "init"   -> "setup"
    [] label = "setup"  -> "draw"
    [] label = "draw"   -> IF AUTO # 0 THEN "usleep" ELSE "getchar"
    [] label = "usleep" -> "update"
    [] label = "update" -> "draw"

-----------------------------------------------------------------------------
(* Actions *)

dims == <<COLS, ROWS, pattern, ticks>>
idxvars == <<ax, ay, kx, ky, ret>>
loopvars == <<x, y, alive_neighbors>>

InUpdate == pc \in {"count", "decide", "copyback"}

\* main: init(grid)
InitGrid ==
  /\ pc = "init"
  /\ grid' = init_grid
  /\ pc' = main_after("init")
  /\ UNCHANGED <<dims, idxvars, loopvars, gridcpy, pre, gen, frame, shown>>

\* main: setup(grid)
Setup ==
  /\ pc = "setup"
  /\ grid' = setup(grid, pattern)
  /\ pc' = main_after("setup")
  /\ UNCHANGED <<dims, idxvars, loopvars, gridcpy, pre, gen, frame, shown>>

\* main: draw(grid), before the loop and at the end of each iteration
Draw ==
  /\ pc = "draw"
  /\ frame' = draw(grid)
  /\ shown' = Append(shown, gen)
  /\ pc' = main_after("draw")
  /\ UNCHANGED <<dims, idxvars, loopvars, grid, gridcpy, pre, gen>>

\* main: usleep(30000) at the head of an iteration of while(1)
Usleep ==
  /\ pc = "usleep"
  /\ gen < ticks
  /\ pc' = main_after("usleep")
  /\ UNCHANGED <<dims, idxvars, loopvars, grid, gridcpy, pre, gen, frame, shown>>

\* update: gridcpy is declared and filled by copygrid(grid, gridcpy); the
\* loops start at y = 0, x = 0
UpdateEnter ==
  /\ pc = "update"
  /\ gridcpy' = copygrid(grid)
  /\ pre' = grid
  /\ x' = 0
  /\ y' = 0
  /\ pc' = "count"
  /\ UNCHANGED <<dims, idxvars, alive_neighbors, grid, gen, frame, shown>>

\* update: int alive_neighbors = count_alive_neighbors(grid, x, y)
UpdateCount ==
  /\ pc = "count"
  /\ alive_neighbors' = count_alive_neighbors(grid, x, y)
  /\ pc' = "decide"
  /\ UNCHANGED <<dims, idxvars, x, y, grid, gridcpy, pre, gen, frame, shown>>

\* update: the if / else of the loop body, then x++ and the loop tests
UpdateCell ==
  /\ pc = "decide"
  /\ LET r == update_cell(grid, gridcpy, x, y, alive_neighbors)
     IN  /\ grid' = r[1]
         /\ gridcpy' = r[2]
  /\ alive_neighbors' = 0
  /\ IF x + 1 < COLS
       THEN x' = x + 1 /\ y' = y /\ pc' = "count"
       ELSE IF y + 1 < ROWS
              THEN x' = 0 /\ y' = y + 1 /\ pc' = "count"
              ELSE x' = 0 /\ y' = y + 1 /\ pc' = "copyback"
  /\ UNCHANGED <<dims, idxvars, pre, gen, frame, shown>>

\* The inner loop of update for row cy over the columns lo .. hi-1: for each
\* x in increasing order, the neighbours are counted and the loop body is
\* applied to the buffers the earlier iterations left.  The range is run as
\* its lower half followed by its upper half, which is the same sequence of
\* iterations; binding the lower half's result v in a set constructor makes
\* TLC compute it once, before the upper half starts.
RECURSIVE update_row(_, _, _, _, _)
update_row(g, cpy, lo, hi, cy) ==
  IF hi - lo <= 0 THEN <<g, cpy>>
  ELSE IF hi - lo = 1
    THEN update_cell(g, cpy, lo, cy, count_alive_neighbors(g, lo, cy))
    ELSE LET mid == lo + ((hi - lo) \div 2)
         IN  CHOOSE w \in { update_row(v[1], v[2], mid, hi, cy) :
                              v \in {update_row(g, cpy, lo, mid, cy)} } : TRUE

\* update: one iteration of the outer loop, "for (int x = 0; x < COLS; x++)"
\* run to its end, then y++ and the outer loop's test.  SpecSeed takes the
\* 70 columns of a row in one step; the steps of UpdateCount and UpdateCell
\* are the same statements taken one cell at a time.
UpdateRow ==
  /\ pc = "count"
  /\ x = 0
  /\ LET r == update_row(grid, gridcpy, 0, COLS, y)
     IN  /\ grid' = r[1]
         /\ gridcpy' = r[2]
  /\ y' = y + 1
  /\ pc' = IF y + 1 < ROWS THEN "count" ELSE "copyback"
  /\ UNCHANGED <<dims, idxvars, x, alive_neighbors, pre, gen, frame, shown>>

\* update: copygrid(gridcpy, grid) and return to main
UpdateReturn ==
  /\ pc = "copyback"
  /\ grid' = copygrid(gridcpy)
  /\ gridcpy' = <<>>
  /\ x' = 0
  /\ y' = 0
  /\ gen' = gen + 1
  /\ pc' = main_after("update")
  /\ UNCHANGED <<dims, idxvars, alive_neighbors, pre, frame, shown>>

\* one call cellindex(ax + kx*COLS, ay + ky*ROWS)
Cellindex ==
  /\ pc = "cellindex"
  /\ ret' = cellindex(ax + kx * COLS, ay + ky * ROWS)
  /\ pc' = "returned"
  /\ UNCHANGED <<dims, ax, ay, kx, ky, loopvars, grid, gridcpy, pre, gen,
                 frame, shown>>

-----------------------------------------------------------------------------
(* Specifications *)

\* main has just been entered: grid is not written yet
MainEntry ==
  /\ pc = "init"
  /\ grid = <<>>
  /\ gridcpy = <<>>
  /\ x = 0
  /\ y = 0
  /\ alive_neighbors = 0
  /\ pre = <<>>
  /\ gen = 0
  /\ frame = <<>>
  /\ shown = <<>>
  /\ ax = 0 /\ ay = 0 /\ kx = 0 /\ ky = 0 /\ ret = 0

\* the three cells of a blinker whose first cell is (bx, by); the
\* coordinates past the last column or row wrap in cellindex
Blinkers ==
  { {<<bx + k, by>> : k \in 0 .. 2} : bx \in 0 .. (COLS - 1), by \in 0 .. (ROWS - 1) }
  \cup
  { {<<bx, by + k>> : k \in 0 .. 2} : bx \in 0 .. (COLS - 1), by \in 0 .. (ROWS - 1) }

\* every seed of every small grid
Init ==
  /\ COLS \in 3 .. MaxCells
  /\ ROWS \in 3 .. MaxCells
  /\ COLS * ROWS <= MaxCells
  /\ pattern \in SUBSET ((0 .. (COLS - 1)) \X (0 .. (ROWS - 1)))
  /\ ticks = MaxGen
  /\ MainEntry

\* a blinker anywhere on a small grid
InitBlinker ==
  /\ COLS \in 4 .. MaxBlinkDim
  /\ ROWS \in 4 .. MaxBlinkDim
  /\ pattern \in Blinkers
  /\ ticks = SeedGens
  /\ MainEntry

\* the program as built: 70 x 30 and the seed of setup
InitSeed ==
  /\ COLS = ProdCols
  /\ ROWS = ProdRows
  /\ pattern = SeedCells
  /\ ticks = SeedGens
  /\ MainEntry

\* cellindex as built, called with coordinates on and off the grid
InitIndex ==
  /\ COLS = ProdCols
  /\ ROWS = ProdRows
  /\ pattern = {}
  /\ ticks = 0
  /\ pc = "cellindex"
  /\ grid = <<>>
  /\ gridcpy = <<>>
  /\ x = 0
  /\ y = 0
  /\ alive_neighbors = 0
  /\ pre = <<>>
  /\ gen = 0
  /\ frame = <<>>
  /\ shown = <<>>
  /\ ax \in 0 .. (COLS - 1)
  /\ ay \in 0 .. (ROWS - 1)
  /\ kx \in (-MaxK) .. MaxK
  /\ ky \in (-MaxK) .. MaxK
  /\ ret = 0

Next ==
  \/ InitGrid
  \/ Setup
  \/ Draw
  \/ Usleep
  \/ UpdateEnter
  \/ UpdateCount
  \/ UpdateCell
  \/ UpdateReturn

NextSeed ==
  \/ InitGrid
  \/ Setup
  \/ Draw
  \/ Usleep
  \/ UpdateEnter
  \/ UpdateRow
  \/ UpdateReturn

NextIndex == Cellindex

Spec == Init /\ [][Next]_vars
SpecBlinker == InitBlinker /\ [][Next]_vars
SpecSeed == InitSeed /\ [][NextSeed]_vars
SpecIndex == InitIndex /\ [][NextIndex]_vars

-----------------------------------------------------------------------------
(* The rule of Life on the torus, stated without the code's operators *)

Wrap(a, n) == a % n

Offsets == ({-1, 0, 1} \X {-1, 0, 1}) \ {<<0, 0>>}

CellAt(cx, cy) == Wrap(cy, ROWS) * COLS + Wrap(cx, COLS)

NeighbourCells(cx, cy) == {CellAt(cx + d[1], cy + d[2]) : d \in Offsets}

LiveNeighbours(g, cx, cy) == Cardinality({c \in NeighbourCells(cx, cy) : g[c] = 1})

Rule(s, n) ==
  IF s = 1 THEN (IF n \in {2, 3} THEN 1 ELSE 0)
           ELSE (IF n = 3 THEN 1 ELSE 0)

LifeCell(g, i) == Rule(g[i], LiveNeighbours(g, i % COLS, i \div COLS))

Life(g) == [i \in 0 .. (COLS * ROWS - 1) |-> LifeCell(g, i)]

AllDead(g) == \A i \in DOMAIN g : g[i] = 0

LiveCells(g) == {i \in DOMAIN g : g[i] = 1}

\* the grid that holds the pattern and nothing else
SeedGrid ==
  [i \in 0 .. (COLS * ROWS - 1) |->
     IF \E c \in pattern : CellAt(c[1], c[2]) = i THEN 1 ELSE 0]

\* g moved by dx columns and dy rows on the torus
Shift(g, dx, dy) ==
  [i \in 0 .. (COLS * ROWS - 1) |-> g[CellAt((i % COLS) - dx, (i \div COLS) - dy)]]

\* update has returned at least once and is not running
Updated == gen > 0 /\ pc \in {"draw", "usleep", "update"}

-----------------------------------------------------------------------------
(* Claims *)

\* C1: after update returns, every cell holds the value the rule B3/S23
\* gives for its state and its live-neighbour count in the grid update was
\* called with.
UpdateIsLife == Updated => grid = Life(pre)

\* C1 witness: an update has returned in which a live cell died of
\* overpopulation, a live cell survived and a dead cell was born.
UpdateIsLifeWitness ==
  /\ Updated
  /\ \E i \in DOMAIN pre :
       pre[i] = 1 /\ LiveNeighbours(pre, i % COLS, i \div COLS) > 3 /\ grid[i] = 0
  /\ \E i \in DOMAIN pre :
       pre[i] = 1 /\ LiveNeighbours(pre, i % COLS, i \div COLS) \in {2, 3} /\ grid[i] = 1
  /\ \E i \in DOMAIN pre :
       pre[i] = 0 /\ LiveNeighbours(pre, i % COLS, i \div COLS) = 3 /\ grid[i] = 1
  /\ \E i \in DOMAIN pre :
       pre[i] = 0 /\ LiveNeighbours(pre, i % COLS, i \div COLS) # 3 /\ grid[i] = 0

\* the cells update's loops have decided when they stand at (x, y)
Decided(i) == i < y * COLS + x

SnapshotInv ==
  InUpdate =>
    /\ grid = pre
    /\ \A i \in DOMAIN gridcpy :
         gridcpy[i] = IF Decided(i) THEN LifeCell(pre, i) ELSE pre[i]

OverwriteAtEnd ==
  (pc \in {"update", "count", "decide", "copyback"} /\ grid' # grid)
     => (pc = "copyback" /\ y = ROWS /\ grid' = gridcpy)

\* C2: while update runs, the caller's grid is the grid update was called
\* with, the scratch buffer holds the new state of the decided cells and the
\* old state of the others, and the grid is overwritten, by the scratch
\* buffer, only when all rows are done.
SnapshotDiscipline == [](SnapshotInv) /\ [][OverwriteAtEnd]_vars

\* C2 witness: update is in the middle of a row and the scratch buffer
\* already differs from the caller's grid.
SnapshotWitness == pc = "count" /\ x > 0 /\ y > 0 /\ gridcpy # grid

\* C3 (as claimed): for any integers, cellindex returns y'*COLS + x' with the
\* non-negative remainders x' and y', a value in [0, COLS*ROWS).
CellindexWraps ==
  pc = "returned" =>
    /\ ret = Wrap(ay + ky * ROWS, ROWS) * COLS + Wrap(ax + kx * COLS, COLS)
    /\ ret \in 0 .. (COLS * ROWS - 1)

\* C4 (as claimed): adding any multiple of COLS to x, or of ROWS to y, does
\* not change the index of an in-bounds (x, y).
CellindexPeriodic ==
  pc = "returned" =>
    /\ ky = 0 => ret = cellindex(ax, ay)
    /\ kx = 0 => ret = cellindex(ax, ay)

\* C5: the count update obtains for (x, y) is the number of live cells among
\* the 8 wrapped neighbours of (x, y), which are 8 cells other than (x, y);
\* it lies in 0..8.
NeighbourCount ==
  pc = "decide" =>
    /\ alive_neighbors = LiveNeighbours(grid, x, y)
    /\ Cardinality(NeighbourCells(x, y)) = 8
    /\ CellAt(x, y) \notin NeighbourCells(x, y)
    /\ alive_neighbors \in 0 .. 8

\* C5 witness: the neighbours of the corner (0, 0) were counted in a grid
\* whose only live cell is (COLS-1, 0), and one was found.
NeighbourCountWitness ==
  /\ pc = "decide"
  /\ x = 0
  /\ y = 0
  /\ LiveCells(grid) = {COLS - 1}
  /\ alive_neighbors = 1

\* C6: once init has run, every cell of the grid, and of the scratch buffer
\* while update runs, is 0 or 1.
BinaryCells ==
  pc # "init" =>
    /\ DOMAIN grid = 0 .. (COLS * ROWS - 1)
    /\ \A i \in DOMAIN grid : grid[i] \in {0, 1}
    /\ \A i \in DOMAIN gridcpy : gridcpy[i] \in {0, 1}
    /\ InUpdate => DOMAIN gridcpy = 0 .. (COLS * ROWS - 1)

\* C6 witness: a second update is under way and has both killed and revived
\* cells in the scratch buffer.
BinaryCellsWitness ==
  /\ pc = "count"
  /\ gen > 0
  /\ \E i \in DOMAIN gridcpy : gridcpy[i] = 1 /\ grid[i] = 0
  /\ \E i \in DOMAIN gridcpy : gridcpy[i] = 0 /\ grid[i] = 1

\* C7: the generations drawn are 0, 1, 2, ... in order; when an iteration
\* starts, and all through its update, the result of every earlier update is
\* on the screen; when update has returned, its result is drawn before
\* anything else.
TickOrder ==
  /\ shown = [i \in 1 .. Len(shown) |-> i - 1]
  /\ pc \in {"init", "setup"} => shown = <<>> /\ gen = 0
  /\ pc = "draw" => Len(shown) = gen
  /\ pc \in {"usleep", "update"} => Len(shown) = gen + 1 /\ frame = draw(grid)
  /\ InUpdate => Len(shown) = gen + 1 /\ frame = draw(pre)

\* C7 witness: the third iteration is under way; generations 0, 1, 2 have
\* been drawn.
TickOrderWitness == pc = "decide" /\ gen = 2 /\ shown = <<0, 1, 2>>

\* C8: a blinker seeded anywhere on a grid of at least 4 x 4 differs from
\* the seed after one update and equals it after two.
BlinkerPeriod ==
  (Cardinality(LiveCells(SeedGrid)) = 3 /\ pc = "draw") =>
    /\ gen = 1 => grid # SeedGrid
    /\ gen = 2 => grid = SeedGrid

\* C8 witness: two updates of a blinker seeded across the right edge have
\* returned.
BlinkerWitness ==
  /\ pc = "draw"
  /\ gen = 2
  /\ pattern = {<<COLS - 1, 1>>, <<COLS, 1>>, <<COLS + 1, 1>>}
  /\ LiveCells(grid) = {COLS, COLS + 1, 2 * COLS - 1}

\* C9: update of an all-dead grid returns an all-dead grid, and the grid
\* left by init and an empty setup is all dead after every update.
NoSpontaneousGeneration ==
  /\ (Updated /\ AllDead(pre)) => AllDead(grid)
  /\ (pattern = {} /\ pc # "init") => AllDead(grid)

\* C9 witness: nothing was seeded and two updates have returned.
NoSpontaneousWitness ==
  pattern = {} /\ gen = 2 /\ pc = "draw" /\ AllDead(pre) /\ AllDead(grid)

\* C10: 4 updates of the seeded 70 x 30 grid give the seed moved by one
\* column, left or right, and by no row, with 119 live cells before and after.
SpaceshipPeriod ==
  (pc = "draw" /\ gen = 4) =>
    /\ \E d \in {-1, 1} : grid = Shift(SeedGrid, d, 0)
    /\ Cardinality(LiveCells(SeedGrid)) = 119
    /\ Cardinality(LiveCells(grid)) = 119

\* C10 witness: the fourth update of the production seed has returned and
\* the pattern stands one column to the left.
SpaceshipWitness ==
  /\ COLS = 70
  /\ ROWS = 30
  /\ pc = "draw"
  /\ gen = 4
  /\ grid = Shift(SeedGrid, -1, 0)
  /\ grid # SeedGrid

====
